---- MODULE Spec2Model ----
(***************************************************************************)
(* Model of the MongoDB load-test worker of load_test.py / settings.py:    *)
(* the schema loader, the SchemaGenerator (unique counters, unique-range   *)
(* pools, enumerations, skew), the per-worker id cache and the four        *)
(* weighted tasks.                                                         *)
(*                                                                         *)
(* Numbers of the source that would make the state space astronomically    *)
(* large are scaled down and named after the source constant they stand    *)
(* for; every formula below refers to them by name only.                   *)
(***************************************************************************)
EXTENDS Integers, Sequences, FiniteSets, TLC

(***************************************************************************)
(* Bounds and scaled constants                                             *)
(***************************************************************************)
\* IDS_TO_CACHE = 1000 in load_test.py:22, scaled
IDS_TO_CACHE == 2
\* the factor 1_000_000 of load_test.py:90, scaled
SEED_FACTOR == 2
\* random.randint(1, 1_000_000_000) of load_test.py:45, scaled: seeds are 1..MaxSeed
MaxSeed == 2
\* DEFAULTS['DOCS_PER_BATCH'] = 1000 in settings.py:6, scaled
DOCS_PER_BATCH == 2
\* upper end of the hot bucket and of the int range, load_test.py:99-101
HOT_MAX == 9
INT_MAX == 10000
\* number of distinct 8-character tokens / timestamps the model draws from
NumTokens == 1
\* a worker generates at most MaxGen documents; a lone worker starts at most
\* MaxStarts times
MaxGen == 3
MaxStarts == 2
\* largest unique_range of the schema files
MaxRange == 2

\* the workers (locust users) a run can have
Workers == {1, 2}

(***************************************************************************)
(* Python values: None, int, str, datetime                                 *)
(***************************************************************************)
PyNone == [kind |-> "none", n |-> 0]
IntV(i) == [kind |-> "int", n |-> i]
StrV(i) == [kind |-> "str", n |-> i]
DateV(i) == [kind |-> "date", n |-> i]

\* an optional attribute: None or a value
Nothing == [some |-> FALSE]
Some(v) == [some |-> TRUE, val |-> v]

\* the absent name / type (item.get returns None)
NoStr == "<None>"
KEY_FIELD == "RECON_RECORD_ID"

Range(s) == {s[i] : i \in 1..Len(s)}

\* Python truthiness of an optional list / an optional int
TruthyList(o) == o.some /\ Len(o.val) > 0
TruthyInt(o) == o.some /\ o.val # 0

(***************************************************************************)
(* settings.py: DEFAULTS and init_defaults_from_env                        *)
(***************************************************************************)
ConfigKeys == {"DOCS_PER_BATCH", "INSERT_WEIGHT", "FIND_WEIGHT", "BULK_INSERT_WEIGHT", "AGG_PIPE_WEIGHT"}

DEFAULTS ==
  [DOCS_PER_BATCH |-> DOCS_PER_BATCH,
   INSERT_WEIGHT |-> 0,
   FIND_WEIGHT |-> 0,
   BULK_INSERT_WEIGHT |-> 10,
   AGG_PIPE_WEIGHT |-> 0]

\* an environment: each key unset (Nothing) or set to a decimal string, given by its value
NoEnv == [k \in ConfigKeys |-> Nothing]

\* every task enabled
AllTasksEnv ==
  [NoEnv EXCEPT !["INSERT_WEIGHT"] = Some(1), !["FIND_WEIGHT"] = Some(1),
                !["AGG_PIPE_WEIGHT"] = Some(1), !["BULK_INSERT_WEIGHT"] = Some(1)]

Environments ==
  << NoEnv,
     AllTasksEnv,
     [NoEnv EXCEPT !["INSERT_WEIGHT"] = Some(3), !["FIND_WEIGHT"] = Some(1),
                   !["BULK_INSERT_WEIGHT"] = Some(2), !["DOCS_PER_BATCH"] = Some(1)],
     [NoEnv EXCEPT !["INSERT_WEIGHT"] = Some(1), !["FIND_WEIGHT"] = Some(1),
                   !["BULK_INSERT_WEIGHT"] = Some(0)] >>

\* os.environ.get(key) replaces the default when it is set; int() reads it
init_defaults_from_env(env) ==
  [k \in ConfigKeys |-> IF env[k].some THEN env[k].val ELSE DEFAULTS[k]]

(***************************************************************************)
(* schema100.json and _load_schema                                         *)
(***************************************************************************)
Item(name, type, allowed, unique, skewed, range) ==
  [name |-> name, type |-> type, allowed_values |-> allowed,
   unique |-> unique, skewed |-> skewed, unique_range |-> range]

OPEN == StrV(101)
CLOSED == StrV(102)

\* the schema files the model draws from
SchemaFiles ==
  << \* the end-to-end schema: unique int key and an enumerated string
     << Item(Some(KEY_FIELD), Some("int"), Nothing, Some(TRUE), Nothing, Nothing),
        Item(Some("STATUS"), Some("string"), Some(<<OPEN, CLOSED>>), Nothing, Nothing, Nothing) >>,
     \* a unique int key alone
     << Item(Some(KEY_FIELD), Some("int"), Nothing, Some(TRUE), Nothing, Nothing) >>,
     \* unique-range keys
     << Item(Some(KEY_FIELD), Some("int"), Nothing, Some(FALSE), Nothing, Some(MaxRange)) >>,
     << Item(Some(KEY_FIELD), Some("int"), Nothing, Nothing, Nothing, Some(MaxRange - 1)) >>,
     \* skewed and default ints
     << Item(Some("AMOUNT"), Some("int"), Nothing, Nothing, Some(TRUE), Nothing) >>,
     << Item(Some(KEY_FIELD), Some("int"), Nothing, Nothing, Nothing, Nothing) >>,
     \* several policies at once
     << Item(Some(KEY_FIELD), Some("int"), Nothing, Some(TRUE), Some(TRUE), Some(MaxRange - 1)) >>,
     << Item(Some(KEY_FIELD), Some("int"), Nothing, Nothing, Some(TRUE), Some(MaxRange - 1)) >>,
     << Item(Some(KEY_FIELD), Some("int"), Some(<<IntV(7), IntV(8)>>), Some(TRUE), Some(TRUE), Some(MaxRange - 1)) >>,
     \* enumerations: empty, and of another type than the field
     << Item(Some(KEY_FIELD), Some("int"), Some(<< >>), Nothing, Nothing, Nothing) >>,
     << Item(Some(KEY_FIELD), Some("int"), Some(<<OPEN>>), Nothing, Nothing, Nothing) >>,
     \* strings and dates
     << Item(Some(KEY_FIELD), Some("string"), Nothing, Some(TRUE), Nothing, Nothing) >>,
     << Item(Some(KEY_FIELD), Some("date"), Nothing, Nothing, Nothing, Nothing) >>,
     \* malformed descriptors: unsupported type, no type, no name
     << Item(Some(KEY_FIELD), Some("float"), Nothing, Nothing, Nothing, Nothing) >>,
     << Item(Some(KEY_FIELD), Nothing, Nothing, Nothing, Nothing, Nothing) >>,
     << Item(Nothing, Some("int"), Nothing, Some(TRUE), Nothing, Nothing) >>,
     \* no key field at all
     << Item(Some("STATUS"), Some("string"), Some(<<OPEN, CLOSED>>), Nothing, Nothing, Nothing) >>,
     \* a unique int key beside a field of an unsupported type
     << Item(Some(KEY_FIELD), Some("int"), Nothing, Some(TRUE), Nothing, Nothing),
        Item(Some("AMOUNT"), Some("float"), Nothing, Nothing, Nothing, Nothing) >>,
     \* a unique-range key of a wider range
     << Item(Some(KEY_FIELD), Some("int"), Nothing, Nothing, Nothing, Some(MaxRange + 1)) >> >>

\* SchemaField.__init__
SchemaField(name, ftype, allowed_values, unique, skewed, unique_range) ==
  [name |-> name, ftype |-> ftype, allowed_values |-> allowed_values,
   unique |-> unique, skewed |-> skewed, unique_range |-> unique_range]

\* item.get(key) for a string key: the value, or None
GetStr(o) == IF o.some THEN o.val ELSE NoStr

\* bool(item.get(key)) if key in item else False
GetFlag(o) == IF o.some THEN o.val ELSE FALSE

\* MongoSampleUser._load_schema: no descriptor is rejected
_load_schema(raw) ==
  [i \in 1..Len(raw) |->
     SchemaField(GetStr(raw[i].name), GetStr(raw[i].type), raw[i].allowed_values,
                 GetFlag(raw[i].unique), GetFlag(raw[i].skewed), raw[i].unique_range)]

(***************************************************************************)
(* SchemaGenerator                                                         *)
(***************************************************************************)
Names(spec) == {spec[i].name : i \in 1..Len(spec)}

HasRange(f) == TruthyInt(f.unique_range)
HasAllowed(f) == TruthyList(f.allowed_values)

\* the last of a set of field positions: a later dict entry overwrites an earlier one
LastOf(S) == CHOOSE i \in S : \A j \in S : j <= i

\* the last field with the name; the last one that also has a pool; an enumeration
LastIdx(spec, name) == LastOf({i \in 1..Len(spec) : spec[i].name = name})
LastRangeIdx(spec, name) == LastOf({i \in 1..Len(spec) : spec[i].name = name /\ HasRange(spec[i])})
LastAllowedIdx(spec, name) == LastOf({i \in 1..Len(spec) : spec[i].name = name /\ HasAllowed(spec[i])})

\* deque.rotate(k) on the sequence s: the element at position i moves to position i + k
Rotate(s, k) ==
  IF Len(s) = 0 THEN s
  ELSE [i \in 1..Len(s) |-> s[((i - 1 - k) % Len(s)) + 1]]

\* a pool rotated to the left, which would start the worker at seed % rng
InitialPoolLeft(rng, seed) == Rotate([i \in 1..rng |-> i - 1], -(seed % rng))

\* deque(range(rng)) rotated by seed % rng
InitialPool(rng, seed) == Rotate([i \in 1..rng |-> i - 1], seed % rng)

\* SchemaGenerator.__init__ with the seed that random.randint drew
SchemaGenerator(spec, seed, validate) ==
  [spec |-> spec,
   seed |-> seed,
   unique_counters |->
     [n \in {spec[i].name : i \in {j \in 1..Len(spec) : spec[j].unique}} |-> 0],
   unique_range_pools |->
     [n \in {spec[i].name : i \in {j \in 1..Len(spec) : HasRange(spec[j])}} |->
        InitialPool(spec[LastRangeIdx(spec, n)].unique_range.val, seed)],
   validator |-> validate]

\* the values of random.randint(lo, hi) the model draws: both ends of the range
RandInts(lo, hi) == {IntV(lo), IntV(hi)}

\* the enumeration checked after the unique policy instead of first
EnumeratedUnlessUnique(field) == TruthyList(field.allowed_values) /\ ~field.unique

\* the condition of "allowed values take precedence"
Enumerated(field) == TruthyList(field.allowed_values)

\* the seed added without its factor
UniqueValueNoFactor(seed, counter) == seed + counter

\* the value of a unique int field: the seeded prefix plus the counter
UniqueValue(seed, counter) == seed * SEED_FACTOR + counter

\* the pool left where it is
AdvancePoolStuck(pool) == pool

\* pool.rotate(-1)
AdvancePool(pool) == Rotate(pool, -1)

\* a _gen_value that tests unique_range before unique
_gen_value_range_first(g, field) ==
  IF Enumerated(field)
  THEN {[val |-> v, g |-> g] : v \in Range(field.allowed_values.val)}
  ELSE IF field.ftype = "int"
  THEN IF TruthyInt(field.unique_range)
       THEN LET pool == g.unique_range_pools[field.name]
            IN {[val |-> IntV(pool[1]),
                 g |-> [g EXCEPT !.unique_range_pools[field.name] = AdvancePool(pool)]]}
       ELSE IF field.unique
       THEN LET c == g.unique_counters[field.name] + 1
            IN {[val |-> IntV(UniqueValue(g.seed, c)),
                 g |-> [g EXCEPT !.unique_counters[field.name] = c]]}
       ELSE IF field.skewed
       THEN {[val |-> v, g |-> g] : v \in RandInts(0, HOT_MAX) \cup RandInts(HOT_MAX + 1, INT_MAX)}
       ELSE {[val |-> v, g |-> g] : v \in RandInts(0, INT_MAX)}
  ELSE IF field.ftype = "string"
  THEN {[val |-> StrV(i), g |-> g] : i \in 1..NumTokens}
  ELSE IF field.ftype = "date"
  THEN {[val |-> DateV(i), g |-> g] : i \in 1..NumTokens}
  ELSE {[val |-> PyNone, g |-> g]}

\* SchemaGenerator._gen_value: every value it can return, with the generator it leaves
_gen_value(g, field) ==
  IF Enumerated(field)
  THEN {[val |-> v, g |-> g] : v \in Range(field.allowed_values.val)}
  ELSE IF field.ftype = "int"
  THEN IF field.unique
       THEN LET c == g.unique_counters[field.name] + 1
            IN {[val |-> IntV(UniqueValue(g.seed, c)),
                 g |-> [g EXCEPT !.unique_counters[field.name] = c]]}
       ELSE IF TruthyInt(field.unique_range)
       THEN LET pool == g.unique_range_pools[field.name]
            IN {[val |-> IntV(pool[1]),
                 g |-> [g EXCEPT !.unique_range_pools[field.name] = AdvancePool(pool)]]}
       ELSE IF field.skewed
       THEN {[val |-> v, g |-> g] : v \in RandInts(0, HOT_MAX) \cup RandInts(HOT_MAX + 1, INT_MAX)}
       ELSE {[val |-> v, g |-> g] : v \in RandInts(0, INT_MAX)}
  ELSE IF field.ftype = "string"
  THEN {[val |-> StrV(i), g |-> g] : i \in 1..NumTokens}
  ELSE IF field.ftype = "date"
  THEN {[val |-> DateV(i), g |-> g] : i \in 1..NumTokens}
  ELSE {[val |-> PyNone, g |-> g]}

\* the dict comprehension of generate: field after field, in spec order
RECURSIVE GenFields(_, _, _)
GenFields(g, i, vals) ==
  IF i > Len(g.spec)
  THEN {[g |-> g, vals |-> vals]}
  ELSE UNION {GenFields(o.g, i + 1, Append(vals, o.val)) : o \in _gen_value(g, g.spec[i])}

\* the dict built from the values: one entry per name, the last field of a name wins
MakeDoc(spec, vals) == [n \in Names(spec) |-> vals[LastIdx(spec, n)]]

\* document.get(key)
DocGet(doc, key) == IF key \in DOMAIN doc THEN doc[key] ELSE PyNone

\* the pydantic type of a field
PyType(ftype) == IF ftype = "int" THEN "int" ELSE IF ftype = "string" THEN "str" ELSE "date"

\* whether pydantic accepts the value for the type; a Python int for a str field
\* is coerced by pydantic 1 and rejected by pydantic 2
TypeAccepts(py_type, v) ==
  IF v.kind = "none" THEN {FALSE}
  ELSE IF v.kind = py_type THEN {TRUE}
  ELSE IF v.kind = "int" /\ py_type = "date" THEN {TRUE}
  ELSE IF v.kind = "int" /\ py_type = "str" THEN {TRUE, FALSE}
  ELSE {FALSE}

\* _check_allowed over allowed_map
check_allowed(spec, doc) ==
  \A n \in {spec[i].name : i \in {j \in 1..Len(spec) : HasAllowed(spec[j])}} :
     doc[n] \in Range(spec[LastAllowedIdx(spec, n)].allowed_values.val)

\* self._validator_model(**doc): the outcomes (TRUE: accepted)
Validate(spec, doc) ==
  IF ~check_allowed(spec, doc) THEN {FALSE}
  ELSE LET per == [n \in Names(spec) |->
                     TypeAccepts(PyType(spec[LastIdx(spec, n)].ftype), doc[n])]
       IN {b \in BOOLEAN : IF b THEN \A n \in Names(spec) : TRUE \in per[n]
                                ELSE \E n \in Names(spec) : FALSE \in per[n]}

\* a generate that takes the counters and pools back when validation rejects
\* the document
generate_rolling_back(g) ==
  UNION {{[doc |-> MakeDoc(g.spec, r.vals), g |-> IF ok THEN r.g ELSE g, vals |-> r.vals, ok |-> ok] :
            ok \in (IF g.validator THEN Validate(g.spec, MakeDoc(g.spec, r.vals)) ELSE {TRUE})} :
         r \in GenFields(g, 1, << >>)}

\* SchemaGenerator.generate: the document, the generator left behind, the values
\* drawn, and whether validation let the document through
generate(g) ==
  UNION {{[doc |-> MakeDoc(g.spec, r.vals), g |-> r.g, vals |-> r.vals, ok |-> ok] :
            ok \in (IF g.validator THEN Validate(g.spec, MakeDoc(g.spec, r.vals)) ELSE {TRUE})} :
         r \in GenFields(g, 1, << >>)}

\* a batch loop that stops one document short
RECURSIVE GenerateManyShort(_, _)
GenerateManyShort(g, n) ==
  IF n <= 1
  THEN {[docs |-> << >>, g |-> g, valss |-> << >>, ok |-> TRUE]}
  ELSE UNION {IF r.ok
              THEN {[docs |-> IF m.ok THEN <<r.doc>> \o m.docs ELSE << >>, g |-> m.g,
                     valss |-> <<r.vals>> \o m.valss, ok |-> m.ok] : m \in GenerateManyShort(r.g, n - 1)}
              ELSE {[docs |-> << >>, g |-> r.g, valss |-> <<r.vals>>, ok |-> FALSE]} :
              r \in generate(g)}

\* n calls of generate in a row; the first failure ends the run with ok = FALSE
RECURSIVE GenerateMany(_, _)
GenerateMany(g, n) ==
  IF n = 0
  THEN {[docs |-> << >>, g |-> g, valss |-> << >>, ok |-> TRUE]}
  ELSE UNION {IF r.ok
              THEN {[docs |-> IF m.ok THEN <<r.doc>> \o m.docs ELSE << >>, g |-> m.g,
                     valss |-> <<r.vals>> \o m.valss, ok |-> m.ok] : m \in GenerateMany(r.g, n - 1)}
              ELSE {[docs |-> << >>, g |-> r.g, valss |-> <<r.vals>>, ok |-> FALSE]} :
              r \in generate(g)}

(***************************************************************************)
(* The worker: MongoSampleUser                                             *)
(***************************************************************************)
VARIABLES
  cfg,          \* DEFAULTS after init_defaults_from_env
  HAS_PYDANTIC, \* whether the pydantic import succeeded
  schema_file,  \* the content of schema100.json
  generator,    \* per worker: self.generator, Nothing (None) or Some(generator)
  id_cache,     \* per worker: self.id_cache
  starts,       \* per worker: the number of on_start calls so far
  generated,    \* per worker: the number of generate calls so far
  emitted,      \* per worker: for each field of the spec, the values _gen_value
                \* returned for it since the generator was constructed
  written,      \* per worker: the keys of the documents the store accepted
  workers,      \* the workers the harness runs
  last          \* the last operation: worker, task, the cache before it, the store
                \* calls it issued and how it ended

vars == <<cfg, HAS_PYDANTIC, schema_file, workers, generator, id_cache, starts, generated, emitted, written, last>>

Tasks == <<"run_aggregation_pipeline", "insert_single_document", "find_document", "insert_documents_bulk">>

\* the insert weights read by each other's task
TaskWeightSwapped(c, task) ==
  IF task = "run_aggregation_pipeline" THEN c["AGG_PIPE_WEIGHT"]
  ELSE IF task = "insert_single_document" THEN c["BULK_INSERT_WEIGHT"]
  ELSE IF task = "find_document" THEN c["FIND_WEIGHT"]
  ELSE c["INSERT_WEIGHT"]

\* the weight each @mongodb_task decorator reads
TaskWeight(c, task) ==
  IF task = "run_aggregation_pipeline" THEN c["AGG_PIPE_WEIGHT"]
  ELSE IF task = "insert_single_document" THEN c["INSERT_WEIGHT"]
  ELSE IF task = "find_document" THEN c["FIND_WEIGHT"]
  ELSE c["BULK_INSERT_WEIGHT"]

\* the harness keeps each task weight times in the list it draws from
RECURSIVE TaskList(_, _)
TaskList(c, i) ==
  IF i > Len(Tasks) THEN << >>
  ELSE [k \in 1..TaskWeight(c, Tasks[i]) |-> Tasks[i]] \o TaskList(c, i + 1)

\* the harness draws one entry of the list
Scheduled(task) == \E k \in 1..Len(TaskList(cfg, 1)) : TaskList(cfg, 1)[k] = task

NoCall == << >>
Call(op, target, docs, key, pipeline) ==
  [op |-> op, target |-> target, docs |-> docs, key |-> key, pipeline |-> pipeline]

\* the last operation: who ran what, the caches and generators it started from,
\* the store calls it issued and how it ended
Op(w, task, pre, calls, outcome) ==
  [w |-> w, task |-> task, pre |-> pre, calls |-> calls, outcome |-> outcome,
   caches |-> id_cache, generators |-> generator]

\* the schema files every environment is run with; the others run with AllTasksEnv
CoreSchemas == {2}

Init ==
  /\ \E e \in 1..Len(Environments), i \in 1..Len(SchemaFiles) :
       /\ Environments[e] = AllTasksEnv \/ i \in CoreSchemas
       /\ cfg = init_defaults_from_env(Environments[e])
       /\ schema_file = SchemaFiles[i]
  /\ HAS_PYDANTIC \in BOOLEAN
  /\ workers = {1}
  /\ generator = [w \in Workers |-> Nothing]
  /\ id_cache = [w \in Workers |-> << >>]
  /\ starts = [w \in Workers |-> 0]
  /\ generated = [w \in Workers |-> 0]
  /\ emitted = [w \in Workers |-> << >>]
  /\ written = [w \in Workers |-> {}]
  /\ last = Op(0, "init", << >>, NoCall, "ok")

\* the generate calls, or the starts, of all workers together
RECURSIVE Total(_, _)
Total(f, S) ==
  IF S = {} THEN 0
  ELSE LET w == CHOOSE x \in S : TRUE IN f[w] + Total(f, S \ {w})

\* the run lets a worker start (again): a lone worker starts at most MaxStarts
\* times, and in a run of several workers each starts once
MayStart(w) ==
  starts[w] < (IF Cardinality(workers) = 1 THEN MaxStarts ELSE 1)

\* create_model(**field_defs) takes the field names as keywords: a name that is
\* None makes SchemaGenerator.__init__ raise a TypeError
ModelBuilds(spec) == NoStr \notin Names(spec)

\* an on_start over a cache that is one list of the class, shared by all workers
on_start_shared_cache(w) ==
  /\ MayStart(w)
  /\ starts' = [starts EXCEPT ![w] = @ + 1]
  /\ UNCHANGED <<cfg, HAS_PYDANTIC, schema_file, workers, generated, written>>
  /\ IF HAS_PYDANTIC /\ ~ModelBuilds(_load_schema(schema_file))
     THEN /\ last' = Op(w, "on_start", id_cache[w], NoCall, "TypeError")
          /\ UNCHANGED <<generator, id_cache, emitted>>
     ELSE /\ \E seed \in 1..MaxSeed :
               generator' = [generator EXCEPT
                               ![w] = Some(SchemaGenerator(_load_schema(schema_file), seed, HAS_PYDANTIC))]
          /\ id_cache' = [v \in Workers |-> << >>]
          /\ emitted' = [emitted EXCEPT ![w] = [i \in 1..Len(schema_file) |-> << >>]]
          /\ last' = Op(w, "on_start", id_cache[w], NoCall, "ok")

\* MongoSampleUser.on_start
on_start(w) ==
  /\ MayStart(w)
  /\ starts' = [starts EXCEPT ![w] = @ + 1]
  /\ UNCHANGED <<cfg, HAS_PYDANTIC, schema_file, workers, generated, written>>
  /\ IF HAS_PYDANTIC /\ ~ModelBuilds(_load_schema(schema_file))
     THEN /\ last' = Op(w, "on_start", id_cache[w], NoCall, "TypeError")
          /\ UNCHANGED <<generator, id_cache, emitted>>
     ELSE /\ \E seed \in 1..MaxSeed :
               generator' = [generator EXCEPT
                               ![w] = Some(SchemaGenerator(_load_schema(schema_file), seed, HAS_PYDANTIC))]
          /\ id_cache' = [id_cache EXCEPT ![w] = << >>]
          /\ emitted' = [emitted EXCEPT ![w] = [i \in 1..Len(schema_file) |-> << >>]]
          /\ last' = Op(w, "on_start", id_cache[w], NoCall, "ok")

\* the run lets a worker generate n more documents: each worker generates at
\* most MaxGen documents, all workers together at most MaxGen + 1
MayGenerate(w, n) ==
  /\ generated[w] + n <= MaxGen
  /\ Total(generated, Workers) + n <= MaxGen + 1

\* the number of documents the worker's generator has been asked for
GenCount(w) == IF Len(emitted[w]) = 0 THEN 0 ELSE Len(emitted[w][1])

\* emitted after the values of some more generate calls
Emit(em, valss) ==
  [i \in 1..Len(em) |-> em[i] \o [k \in 1..Len(valss) |-> valss[k][i]]]

\* a cache that appends whatever its length
record_unbounded(cache, rec_id) ==
  IF rec_id = PyNone THEN {cache} ELSE {Append(cache, rec_id)}

\* a cache that starts over with the new key once it is full
record_flushing(cache, rec_id) ==
  IF rec_id = PyNone THEN {cache}
  ELSE IF Len(cache) < IDS_TO_CACHE THEN {Append(cache, rec_id)}
  ELSE {<<rec_id>>}

\* the cache update of insert_single_document: every cache it can leave
record(cache, rec_id) ==
  IF rec_id = PyNone THEN {cache}
  ELSE IF Len(cache) < IDS_TO_CACHE THEN {Append(cache, rec_id)}
  ELSE {IF r = 0 THEN [cache EXCEPT ![slot + 1] = rec_id] ELSE cache :
          r \in 0..9, slot \in 0..(Len(cache) - 1)}

\* the cache update of insert_documents_bulk for one document
bulk_record(cache, rid) ==
  IF rid # PyNone /\ Len(cache) < IDS_TO_CACHE THEN Append(cache, rid) ELSE cache

RECURSIVE bulk_record_all(_, _)
bulk_record_all(cache, docs) ==
  IF docs = << >> THEN cache
  ELSE bulk_record_all(bulk_record(cache, DocGet(Head(docs), KEY_FIELD)), Tail(docs))

\* the keys the store has accepted after a call that inserted docs
Accepted(ws, docs) == ws \cup ({DocGet(docs[i], KEY_FIELD) : i \in 1..Len(docs)} \ {PyNone})

\* a generate_new_document that hands back an empty document where it has no
\* generator, so that the task goes on to its store call
not_initialized_submits(w, task) ==
  /\ last' = Op(w, task, id_cache[w],
                <<Call(IF task = "insert_single_document" THEN "insert_one" ELSE "insert_many",
                       "primary", << >>, PyNone, << >>)>>, "ok")
  /\ UNCHANGED <<generator, id_cache, generated, emitted, written>>

\* MongoSampleUser.generate_new_document without a generator: it raises the
\* RuntimeError before the task has touched the cache or the store
not_initialized(w, task) ==
  /\ last' = Op(w, task, id_cache[w], NoCall, "RuntimeError")
  /\ UNCHANGED <<generator, id_cache, generated, emitted, written>>

\* MongoSampleUser.insert_single_document
insert_single_document(w) ==
  /\ Scheduled("insert_single_document")
  /\ UNCHANGED <<cfg, HAS_PYDANTIC, schema_file, workers, starts>>
  /\ IF ~generator[w].some
     THEN not_initialized(w, "insert_single_document")
     ELSE /\ MayGenerate(w, 1)
          /\ generated' = [generated EXCEPT ![w] = @ + 1]
          /\ \E r \in generate(generator[w].val) :
               /\ generator' = [generator EXCEPT ![w] = Some(r.g)]
               /\ emitted' = [emitted EXCEPT ![w] = Emit(@, <<r.vals>>)]
               /\ IF ~r.ok
                  THEN /\ last' = Op(w, "insert_single_document", id_cache[w], NoCall, "ValidationError")
                       /\ UNCHANGED <<id_cache, written>>
                  ELSE \E c \in record(id_cache[w], DocGet(r.doc, KEY_FIELD)), stored \in BOOLEAN :
                         /\ id_cache' = [id_cache EXCEPT ![w] = c]
                         /\ written' = [written EXCEPT ![w] = IF stored THEN Accepted(@, <<r.doc>>) ELSE @]
                         /\ last' = Op(w, "insert_single_document", id_cache[w],
                                       <<Call("insert_one", "primary", <<r.doc>>, PyNone, << >>)>>,
                                       IF stored THEN "ok" ELSE "StoreError")

\* MongoSampleUser.insert_documents_bulk
insert_documents_bulk(w) ==
  /\ Scheduled("insert_documents_bulk")
  /\ UNCHANGED <<cfg, HAS_PYDANTIC, schema_file, workers, starts>>
  /\ IF ~generator[w].some
     THEN not_initialized(w, "insert_documents_bulk")
     ELSE /\ MayGenerate(w, cfg["DOCS_PER_BATCH"])
          /\ \E m \in GenerateMany(generator[w].val, cfg["DOCS_PER_BATCH"]) :
               /\ generated' = [generated EXCEPT ![w] = @ + Len(m.valss)]
               /\ generator' = [generator EXCEPT ![w] = Some(m.g)]
               /\ emitted' = [emitted EXCEPT ![w] = Emit(@, m.valss)]
               /\ IF ~m.ok
                  THEN /\ last' = Op(w, "insert_documents_bulk", id_cache[w], NoCall, "ValidationError")
                       /\ UNCHANGED <<id_cache, written>>
                  ELSE \E stored \in BOOLEAN :
                         /\ id_cache' = [id_cache EXCEPT ![w] = bulk_record_all(@, m.docs)]
                         /\ written' = [written EXCEPT ![w] = IF stored THEN Accepted(@, m.docs) ELSE @]
                         /\ last' = Op(w, "insert_documents_bulk", id_cache[w],
                                       <<Call("insert_many", "primary", m.docs, PyNone, << >>)>>,
                                       IF stored THEN "ok" ELSE "StoreError")

\* a lookup issued without the emptiness check
find_calls_unguarded(cache) ==
  {<<Call("find_one", "primary", << >>, k, << >>)>> :
     k \in Range(cache) \cup (IF cache = << >> THEN {PyNone} ELSE {})}

\* the store calls find_document can issue from a cache: none when it is empty,
\* else one find_one on a key random.choice picked
find_calls(cache) ==
  IF cache = << >> THEN {NoCall}
  ELSE {<<Call("find_one", "primary", << >>, cache[i], << >>)>> : i \in 1..Len(cache)}

\* a find_document that drops from the cache a key its lookup did not find
find_document_evicting(w) ==
  /\ Scheduled("find_document")
  /\ UNCHANGED <<cfg, HAS_PYDANTIC, schema_file, workers, starts, generator, generated, emitted, written>>
  /\ \E calls \in find_calls(id_cache[w]), found \in BOOLEAN :
       /\ last' = Op(w, "find_document", id_cache[w], calls,
                     IF calls = NoCall \/ found THEN "ok" ELSE "StoreError")
       /\ id_cache' = [id_cache EXCEPT
                         ![w] = IF calls = NoCall \/ found THEN @
                                ELSE SelectSeq(@, LAMBDA k : k # calls[1].key)]

\* MongoSampleUser.find_document
find_document(w) ==
  /\ Scheduled("find_document")
  /\ UNCHANGED <<cfg, HAS_PYDANTIC, schema_file, workers, starts, generator, id_cache, generated, emitted, written>>
  /\ \E calls \in find_calls(id_cache[w]), found \in BOOLEAN :
       last' = Op(w, "find_document", id_cache[w], calls,
                  IF calls = NoCall \/ found THEN "ok" ELSE "StoreError")

PIPELINE == <<"$group", "$set", "$unset", "$sort">>

\* the pipeline sent through the handle the inserts use
aggregate_calls_on_primary == <<Call("aggregate", "primary", << >>, PyNone, PIPELINE)>>

\* self.collection_secondary.aggregate(pipeline): the one store call of the task
aggregate_calls == <<Call("aggregate", "secondary", << >>, PyNone, PIPELINE)>>

\* MongoSampleUser.run_aggregation_pipeline
run_aggregation_pipeline(w) ==
  /\ Scheduled("run_aggregation_pipeline")
  /\ UNCHANGED <<cfg, HAS_PYDANTIC, schema_file, workers, starts, generator, id_cache, generated, emitted, written>>
  /\ IF starts[w] = 0
     THEN last' = Op(w, "run_aggregation_pipeline", id_cache[w], NoCall, "AttributeError")
     ELSE \E done \in BOOLEAN :
            last' = Op(w, "run_aggregation_pipeline", id_cache[w], aggregate_calls,
                       IF done THEN "ok" ELSE "StoreError")

Next ==
  \/ \E w \in workers : on_start(w)
  \/ \E w \in workers : insert_single_document(w)
  \/ \E w \in workers : insert_documents_bulk(w)
  \/ \E w \in workers : find_document(w)
  \/ \E w \in workers : run_aggregation_pipeline(w)

Spec == Init /\ [][Next]_vars

\* two workers side by side, on the schemas with a unique or a unique-range key
PairSchemas == {2, 3}

InitPair ==
  /\ cfg = init_defaults_from_env(AllTasksEnv)
  /\ HAS_PYDANTIC = FALSE
  /\ \E i \in PairSchemas : schema_file = SchemaFiles[i]
  /\ workers = Workers
  /\ generator = [w \in Workers |-> Nothing]
  /\ id_cache = [w \in Workers |-> << >>]
  /\ starts = [w \in Workers |-> 0]
  /\ generated = [w \in Workers |-> 0]
  /\ emitted = [w \in Workers |-> << >>]
  /\ written = [w \in Workers |-> {}]
  /\ last = Op(0, "init", << >>, NoCall, "ok")

SpecPair == InitPair /\ [][Next]_vars

(***************************************************************************)
(* Properties                                                              *)
(***************************************************************************)
IsTask(t) == t \in Range(Tasks)

\* fields by the policy _gen_value applies to them
UniqueIntField(f) == ~TruthyList(f.allowed_values) /\ f.ftype = "int" /\ f.unique
RangeIntField(f) ==
  ~TruthyList(f.allowed_values) /\ f.ftype = "int" /\ ~f.unique /\ TruthyInt(f.unique_range)

\* the fields of the worker's generator (none before on_start)
FieldsOf(w) == IF generator[w].some THEN 1..Len(generator[w].val.spec) ELSE {}
FieldOf(w, i) == generator[w].val.spec[i]

\* C1: the Key Cache never holds more than IDS_TO_CACHE entries, and a task that
\* starts with a full cache leaves it with exactly IDS_TO_CACHE entries.
C1_CacheBounded ==
  /\ \A w \in Workers : Len(id_cache[w]) <= IDS_TO_CACHE
  /\ (IsTask(last.task) /\ Len(last.pre) = IDS_TO_CACHE)
       => Len(id_cache[last.w]) = IDS_TO_CACHE

C1_Witness ==
  /\ last.task = "insert_single_document"
  /\ Len(last.pre) = IDS_TO_CACHE
  /\ last.calls # NoCall
  /\ id_cache[last.w] # last.pre

\* C2: the n-th value generated for a non-enumerated unique int field is
\* seed * SEED_FACTOR + n, so the values are strictly increasing and distinct.
C2_UniqueSequence ==
  \A w \in Workers : \A i \in FieldsOf(w) :
    UniqueIntField(FieldOf(w, i)) =>
      /\ \A n \in 1..Len(emitted[w][i]) :
           emitted[w][i][n] = IntV(generator[w].val.seed * SEED_FACTOR + n)
      /\ \A m, n \in 1..Len(emitted[w][i]) :
           m < n => emitted[w][i][m].n < emitted[w][i][n].n

C2_Witness ==
  \E w \in Workers : \E i \in FieldsOf(w) :
    /\ UniqueIntField(FieldOf(w, i))
    /\ Len(emitted[w][i]) = MaxGen

\* C3: for a non-enumerated, non-unique int field with unique_range R, any R
\* consecutive values are a permutation of 0..R-1 and the value R places later
\* equals the value itself.
C3_RangePermutation ==
  \A w \in Workers : \A i \in FieldsOf(w) :
    RangeIntField(FieldOf(w, i)) =>
      LET R == FieldOf(w, i).unique_range.val
          e == emitted[w][i]
      IN /\ \A k \in 1..Len(e) :
              (k + R - 1 <= Len(e)) => {e[j] : j \in k..(k + R - 1)} = {IntV(v) : v \in 0..(R - 1)}
         /\ \A k \in 1..Len(e) : (k + R <= Len(e)) => e[k + R] = e[k]

C3_Witness ==
  \E w \in Workers : \E i \in FieldsOf(w) :
    /\ RangeIntField(FieldOf(w, i))
    /\ FieldOf(w, i).unique_range.val = MaxRange
    /\ Len(emitted[w][i]) >= MaxRange + 1

\* C4 as stated: whenever allowed_values is set, every generated value is one of them.
C4_SetEnumerationDominates ==
  \A w \in Workers : \A i \in FieldsOf(w) :
    FieldOf(w, i).allowed_values.some =>
      \A n \in 1..Len(emitted[w][i]) : emitted[w][i][n] \in Range(FieldOf(w, i).allowed_values.val)

\* C4 as amended: whenever allowed_values is set and not empty, every generated
\* value is one of them, whatever the type and the unique, unique_range and skewed flags.
C4_NonEmptyEnumerationDominates ==
  \A w \in Workers : \A i \in FieldsOf(w) :
    (FieldOf(w, i).allowed_values.some /\ Len(FieldOf(w, i).allowed_values.val) > 0) =>
      \A n \in 1..Len(emitted[w][i]) : emitted[w][i][n] \in Range(FieldOf(w, i).allowed_values.val)

C4_Witness ==
  \E w \in Workers : \E i \in FieldsOf(w) :
    /\ FieldOf(w, i).allowed_values.some /\ Len(FieldOf(w, i).allowed_values.val) > 0
    /\ FieldOf(w, i).ftype = "int" /\ FieldOf(w, i).unique
    /\ FieldOf(w, i).skewed /\ FieldOf(w, i).unique_range.some
    /\ Len(emitted[w][i]) >= 2

\* C5: find_document issues no store call from an empty cache, and from a
\* non-empty cache exactly one find_one whose key is in the cache.
C5_FindByKey ==
  last.task = "find_document" =>
    /\ last.pre = << >> => last.calls = NoCall
    /\ last.pre # << >> =>
         /\ Len(last.calls) = 1
         /\ last.calls[1].op = "find_one"
         /\ last.calls[1].key \in Range(last.pre)
         /\ Len(last.pre) = 1 => last.calls[1].key = last.pre[1]

C5_Witness ==
  /\ last.task = "find_document"
  /\ Len(last.pre) = 1
  /\ last.calls # NoCall

\* C6: a task whose configured weight is 0 is never run; with the default
\* weights every task run is the bulk insert.
C6_ZeroWeightNeverRuns ==
  /\ last.task = "insert_single_document" => cfg["INSERT_WEIGHT"] > 0
  /\ last.task = "insert_documents_bulk" => cfg["BULK_INSERT_WEIGHT"] > 0
  /\ last.task = "find_document" => cfg["FIND_WEIGHT"] > 0
  /\ last.task = "run_aggregation_pipeline" => cfg["AGG_PIPE_WEIGHT"] > 0
  /\ (/\ cfg["INSERT_WEIGHT"] = 0 /\ cfg["FIND_WEIGHT"] = 0
      /\ cfg["AGG_PIPE_WEIGHT"] = 0 /\ cfg["BULK_INSERT_WEIGHT"] = 10)
       => (IsTask(last.task) => last.task = "insert_documents_bulk")

C6_Witness ==
  /\ cfg["INSERT_WEIGHT"] = 0 /\ cfg["FIND_WEIGHT"] = 0
  /\ cfg["AGG_PIPE_WEIGHT"] = 0 /\ cfg["BULK_INSERT_WEIGHT"] = 10
  /\ last.task = "insert_documents_bulk"
  /\ last.outcome = "ok"
  /\ GenCount(last.w) = DOCS_PER_BATCH

\* the caches a run of record calls can leave, one call per key
RECURSIVE record_all(_, _)
record_all(caches, keys) ==
  IF keys = << >> THEN caches
  ELSE record_all(UNION {record(c, Head(keys)) : c \in caches}, Tail(keys))

KeysOf(docs) == [i \in 1..Len(docs) |-> DocGet(docs[i], KEY_FIELD)]

\* C7: the caches insert_documents_bulk can leave for a batch are the caches
\* that one record call per document of the batch can leave.
C7_BulkRecordsLikeInsertOne ==
  (last.task = "insert_documents_bulk" /\ last.calls # NoCall) =>
    {id_cache[last.w]} = record_all({last.pre}, KeysOf(last.calls[1].docs))

\* C8: every key in a worker's cache is the key of a document the store accepted.
C8_CachedKeysWereWritten ==
  \A w \in Workers : Range(id_cache[w]) \subseteq written[w]

\* C9 as stated: generators with different seeds never emit the same value
\* for a unique int field.
C9_NoCollision ==
  \A w1, w2 \in Workers : \A i \in FieldsOf(w1) \cap FieldsOf(w2) :
    (/\ w1 # w2
     /\ generator[w1].val.seed # generator[w2].val.seed
     /\ UniqueIntField(FieldOf(w1, i)))
      => Range(emitted[w1][i]) \cap Range(emitted[w2][i]) = {}

\* C9 as amended: generators with different seeds emit no common value for a
\* unique int field as long as each has generated at most SEED_FACTOR values.
C9_NoCollisionWithinFactor ==
  \A w1, w2 \in Workers : \A i \in FieldsOf(w1) \cap FieldsOf(w2) :
    (/\ w1 # w2
     /\ generator[w1].val.seed # generator[w2].val.seed
     /\ UniqueIntField(FieldOf(w1, i))
     /\ Len(emitted[w1][i]) <= SEED_FACTOR
     /\ Len(emitted[w2][i]) <= SEED_FACTOR)
      => Range(emitted[w1][i]) \cap Range(emitted[w2][i]) = {}

C9_Witness ==
  \E w1, w2 \in Workers : \E i \in FieldsOf(w1) \cap FieldsOf(w2) :
    /\ generator[w1].val.seed < generator[w2].val.seed
    /\ UniqueIntField(FieldOf(w1, i))
    /\ Len(emitted[w1][i]) = SEED_FACTOR
    /\ Len(emitted[w2][i]) = SEED_FACTOR

\* what the loader is said to require of a field
ValidField(f) ==
  /\ f.name # NoStr
  /\ f.ftype \in {"int", "string", "date"}
  /\ ~(f.unique /\ f.unique_range.some)

\* C10: no generator is ever built from a schema with a field that lacks a name
\* or a type, has an unsupported type, or is both unique and unique_range.
C10_InvalidSchemaRejected ==
  \A w \in Workers : \A i \in FieldsOf(w) : ValidField(FieldOf(w, i))

IsInsert(t) == t \in {"insert_single_document", "insert_documents_bulk"}

\* the fields _gen_value has no policy for: not enumerated, and neither int,
\* string nor date
UnsupportedField(f) ==
  ~TruthyList(f.allowed_values) /\ f.ftype \notin {"int", "string", "date"}

\* C11: an insert task whose generator has a non-enumerated field of a type
\* other than int, string and date ends with a TypeError and submits no
\* document to the store.
C11_UnsupportedTypeFails ==
  (/\ IsInsert(last.task)
   /\ last.generators[last.w].some
   /\ \E i \in 1..Len(last.generators[last.w].val.spec) :
        UnsupportedField(last.generators[last.w].val.spec[i]))
    => (last.outcome = "TypeError" /\ last.calls = NoCall)

\* C12: an insert task run while the worker has no generator ends with the
\* RuntimeError of generate_new_document, issues no store call and leaves the
\* worker's cache as it was.
C12_UninitializedInsertFails ==
  (IsInsert(last.task) /\ ~last.generators[last.w].some)
    => /\ last.outcome = "RuntimeError"
       /\ last.calls = NoCall
       /\ id_cache[last.w] = last.pre
       /\ generator[last.w] = Nothing

C12_Witness ==
  /\ last.task = "insert_documents_bulk"
  /\ ~last.generators[last.w].some
  /\ last.outcome = "RuntimeError"

\* C13: no operation of a worker, on_start included, leaves any cache shorter
\* than it found it.
C13_CacheNeverShrinks ==
  \A w \in Workers : Len(id_cache[w]) >= Len(last.caches[w])

\* C13 as amended: no task leaves any cache shorter than it found it; an
\* on_start that builds a generator leaves the worker's cache empty whatever
\* it held, and a failed one leaves it as it was.
C13_OnlyOnStartShrinks ==
  /\ last.task # "on_start" =>
       \A w \in Workers : Len(id_cache[w]) >= Len(last.caches[w])
  /\ (last.task = "on_start" /\ last.outcome = "ok") => id_cache[last.w] = << >>
  /\ (last.task = "on_start" /\ last.outcome # "ok") => id_cache[last.w] = last.pre

C13_Witness ==
  /\ last.task = "on_start"
  /\ Len(last.pre) = IDS_TO_CACHE
  /\ id_cache[last.w] = << >>

\* the generator with its validation model switched on or off, and what a
\* generate call shows of itself: the random choices, the document, the
\* counters and pools left behind, and whether the document was returned
WithValidator(g, on) == [g EXCEPT !.validator = on]
GeneratorState(g) == [seed |-> g.seed, unique_counters |-> g.unique_counters,
                      unique_range_pools |-> g.unique_range_pools]
Returned(g) ==
  {[vals |-> r.vals, doc |-> r.doc, state |-> GeneratorState(r.g), ok |-> r.ok] : r \in generate(g)}
Advanced(g) ==
  {[vals |-> r.vals, state |-> GeneratorState(r.g)] : r \in generate(g)}

\* C14: from every generator state a run reaches, generate with validation and
\* generate without return the same documents and leave the same state, for
\* the same random choices.
C14_ValidationAdvisory ==
  \A w \in Workers : generator[w].some =>
    Returned(WithValidator(generator[w].val, TRUE))
      = Returned(WithValidator(generator[w].val, FALSE))

\* C14 as amended: with and without validation generate leaves the same
\* state for the same random choices, and a document the validating generator
\* returns is the one the other returns; but the validating generator returns
\* no document that holds a None. Every generator state is compared in the
\* state where the run first has it, after the operation that made it.
C14_ValidationOnlyRejects ==
  \A w \in Workers : (generator[w].some /\ generator[w] # last.generators[w]) =>
    LET gv == WithValidator(generator[w].val, TRUE)
        gn == WithValidator(generator[w].val, FALSE)
    IN /\ Advanced(gv) = Advanced(gn)
       /\ \A r \in Returned(gv) : r.ok => r \in Returned(gn)
       /\ \A r \in Returned(gn) : r.ok
       /\ \A r \in Returned(gv) : (\E n \in DOMAIN r.doc : r.doc[n] = PyNone) => ~r.ok

C14_Witness ==
  /\ HAS_PYDANTIC
  /\ last.task = "insert_single_document"
  /\ last.outcome = "ValidationError"
  /\ generator[last.w] # last.generators[last.w]

\* C15: an operation of one worker leaves the generator (seed, unique counters,
\* unique-range pools) and the cache of every other worker as they were.
C15_WorkersIsolated ==
  \A w \in Workers : w # last.w =>
    /\ generator[w] = last.generators[w]
    /\ id_cache[w] = last.caches[w]

C15_Witness ==
  \E w \in Workers :
    /\ w # last.w
    /\ (IsInsert(last.task) \/ last.task = "on_start")
    /\ last.outcome = "ok"
    /\ generator[w].some
    /\ id_cache[w] # << >>
    /\ generator[last.w] # last.generators[last.w]

\* C16: every store call of the aggregate task is an aggregate of the pipeline
\* $group, $set, $unset, $sort on the secondary handle; every store call of
\* insert-one, insert-bulk and find-by-key is an insert_one, insert_many or
\* find_one on the primary handle; nothing but aggregate reaches the secondary.
C16_TargetsByTask ==
  \A k \in 1..Len(last.calls) :
    LET c == last.calls[k]
    IN /\ IsTask(last.task)
       /\ last.task = "run_aggregation_pipeline" =>
            /\ c.op = "aggregate"
            /\ c.target = "secondary"
            /\ c.pipeline = <<"$group", "$set", "$unset", "$sort">>
       /\ last.task = "insert_single_document" => (c.op = "insert_one" /\ c.target = "primary")
       /\ last.task = "insert_documents_bulk" => (c.op = "insert_many" /\ c.target = "primary")
       /\ last.task = "find_document" => (c.op = "find_one" /\ c.target = "primary")
       /\ c.target = "secondary" => c.op \notin {"insert_one", "insert_many"}

C16_Witness ==
  /\ last.task = "run_aggregation_pipeline"
  /\ Len(last.calls) = 1
  /\ last.calls[1].target = "secondary"
  /\ written[last.w] # {}

\* C17: for a non-enumerated int field, since the generator was built: if it is
\* unique, its values are the seeded counter values whatever its other flags,
\* and its pool, if it has one, has not moved; else if it has a unique_range R,
\* its values are the pool's, in 0..R-1, even if it is skewed; else, skewed or
\* not, its values lie in 0..INT_MAX.
C17_IntPolicyPriority ==
  \A w \in Workers : \A i \in FieldsOf(w) :
    LET f == FieldOf(w, i)
        g == generator[w].val
        vs == emitted[w][i]
    IN (f.ftype = "int" /\ ~TruthyList(f.allowed_values)) =>
         IF f.unique
         THEN /\ \A k \in 1..Len(vs) : vs[k] = IntV(g.seed * SEED_FACTOR + k)
              /\ TruthyInt(f.unique_range) =>
                   g.unique_range_pools[f.name] = InitialPool(f.unique_range.val, g.seed)
         ELSE IF TruthyInt(f.unique_range)
         THEN \A k \in 1..Len(vs) :
                vs[k].kind = "int" /\ vs[k].n \in 0..(f.unique_range.val - 1)
         ELSE \A k \in 1..Len(vs) :
                /\ vs[k].kind = "int" /\ vs[k].n \in 0..INT_MAX
                /\ f.skewed => (vs[k].n \in 0..HOT_MAX \/ vs[k].n \in (HOT_MAX + 1)..INT_MAX)

C17_Witness ==
  \E w \in Workers : \E i \in FieldsOf(w) :
    /\ FieldOf(w, i).ftype = "int" /\ ~TruthyList(FieldOf(w, i).allowed_values)
    /\ FieldOf(w, i).unique /\ FieldOf(w, i).skewed /\ TruthyInt(FieldOf(w, i).unique_range)
    /\ Len(emitted[w][i]) >= 2

\* C18: an insert-bulk task of a worker with a generator issues one insert_many
\* of DOCS_PER_BATCH documents, leaves every unique counter DOCS_PER_BATCH
\* higher and every unique-range pool DOCS_PER_BATCH positions further, and
\* has updated the cache from the batch whatever the store answers.
C18_BulkGeneratesBatch ==
  (last.task = "insert_documents_bulk" /\ last.generators[last.w].some) =>
    LET g0 == last.generators[last.w].val
        g1 == generator[last.w].val
        B == cfg["DOCS_PER_BATCH"]
    IN /\ Len(last.calls) = 1
       /\ last.calls[1].op = "insert_many"
       /\ Len(last.calls[1].docs) = B
       /\ \A n \in DOMAIN g0.unique_counters :
            g1.unique_counters[n] = g0.unique_counters[n] + B
       /\ \A n \in DOMAIN g0.unique_range_pools :
            g1.unique_range_pools[n] = Rotate(g0.unique_range_pools[n], -B)
       /\ id_cache[last.w] = bulk_record_all(last.pre, last.calls[1].docs)

\* C18 as amended: an insert-bulk task of a worker with a generator reaches the
\* store unless a document fails validation, and then issues nothing and leaves
\* the cache alone; when it reaches the store it issues one insert_many of
\* DOCS_PER_BATCH documents, has advanced by DOCS_PER_BATCH the counter of each
\* non-enumerated unique int field and the pool of each non-enumerated,
\* non-unique int field with a unique_range, has left every other counter and
\* pool alone, and has updated the cache from the batch whatever the store
\* answers.
C18_BulkBatchOnSuccess ==
  (last.task = "insert_documents_bulk" /\ last.generators[last.w].some) =>
    LET g0 == last.generators[last.w].val
        g1 == generator[last.w].val
        B == cfg["DOCS_PER_BATCH"]
        counted == {g0.spec[i].name : i \in {j \in 1..Len(g0.spec) : UniqueIntField(g0.spec[j])}}
        pooled == {g0.spec[i].name : i \in {j \in 1..Len(g0.spec) : RangeIntField(g0.spec[j])}}
    IN IF last.outcome = "ValidationError"
       THEN last.calls = NoCall /\ id_cache[last.w] = last.pre
       ELSE /\ last.outcome \in {"ok", "StoreError"}
            /\ Len(last.calls) = 1
            /\ last.calls[1].op = "insert_many"
            /\ Len(last.calls[1].docs) = B
            /\ \A n \in DOMAIN g0.unique_counters :
                 g1.unique_counters[n] = g0.unique_counters[n] + (IF n \in counted THEN B ELSE 0)
            /\ \A n \in DOMAIN g0.unique_range_pools :
                 g1.unique_range_pools[n] =
                   Rotate(g0.unique_range_pools[n], IF n \in pooled THEN -B ELSE 0)
            /\ id_cache[last.w] = bulk_record_all(last.pre, last.calls[1].docs)

C18_Witness ==
  /\ last.task = "insert_documents_bulk"
  /\ last.outcome = "StoreError"
  /\ Len(last.calls) = 1
  /\ Len(last.calls[1].docs) >= 2
  /\ id_cache[last.w] # last.pre
  /\ \E i \in FieldsOf(last.w) : UniqueIntField(FieldOf(last.w, i))

\* C19: the values a generator with seed s has produced for a non-enumerated,
\* non-unique int field with unique_range R are, in order from k = 0,
\* (k - s) mod R; the first is (-s) mod R.
C19_RangeSequence ==
  \A w \in Workers : \A i \in FieldsOf(w) :
    RangeIntField(FieldOf(w, i)) =>
      LET R == FieldOf(w, i).unique_range.val
          s == generator[w].val.seed
          vs == emitted[w][i]
      IN \A k \in 0..(Len(vs) - 1) : vs[k + 1] = IntV((k + R * s - s) % R)

C19_Witness ==
  \E w \in Workers : \E i \in FieldsOf(w) :
    /\ RangeIntField(FieldOf(w, i))
    /\ LET R == FieldOf(w, i).unique_range.val
           s == generator[w].val.seed
       IN /\ (R * s - s) % R # s % R
          /\ Len(emitted[w][i]) >= R
          /\ emitted[w][i][1] = IntV((R * s - s) % R)

\* C20: find_document and run_aggregation_pipeline leave every cache and every
\* generator (seed, unique counters, unique-range pools) as they found them,
\* whether the store call succeeded, failed or was not issued.
C20_ReadTasksChangeNothing ==
  last.task \in {"find_document", "run_aggregation_pipeline"} =>
    /\ id_cache = last.caches
    /\ generator = last.generators
    /\ id_cache[last.w] = last.pre

C20_Witness ==
  /\ last.task = "find_document"
  /\ last.outcome = "StoreError"
  /\ Len(last.calls) = 1
  /\ Len(id_cache[last.w]) = IDS_TO_CACHE
  /\ \E i \in FieldsOf(last.w) :
       (UniqueIntField(FieldOf(last.w, i)) \/ RangeIntField(FieldOf(last.w, i)))
         /\ Len(emitted[last.w][i]) >= 2

====
